---- MODULE Spec2Model ----
(***************************************************************************)
(* Model of the fake acquirer (src/src/main.rs): the invoice store, the    *)
(* idempotency index, the create and get handlers, and the per-invoice     *)
(* webhook dispatcher task spawned by create.                              *)
(*                                                                         *)
(* The server runs on tokio's multi-threaded runtime (#[tokio::main]), so  *)
(* request handlers and dispatcher tasks run in parallel.  Each access to  *)
(* a DashMap (get, insert) is atomic on its own; a handler or a task is a  *)
(* sequence of such accesses, and the model interleaves them one access    *)
(* per step.  Work on a handler's or a task's local variables is folded    *)
(* into the step of the shared access that follows it.                     *)
(***************************************************************************)
EXTENDS Integers, Sequences, FiniteSets, TLC

\* ===== Bounds =====

\* Number of POST /invoices requests served in one run.
MaxRequests == 3

\* Number of those requests that may miss the index and create an invoice.
MaxInvoices == 2

\* Last instant the clock reaches while no timer is pending.
MaxTime == 0

\* ===== Option values =====

None == <<>>
Some(v) == <<v>>
IsSome(o) == o # <<>>
Unwrap(o) == o[1]

\* ===== Models =====

InvoiceStatus ==
    { "InvoiceStatus::Created", "InvoiceStatus::Paid", "InvoiceStatus::Failed",
      "InvoiceStatus::Canceled", "InvoiceStatus::Expired", "InvoiceStatus::Chargeback" }

EmitStatus ==
    { "EmitStatus::Paid", "EmitStatus::Failed", "EmitStatus::Canceled",
      "EmitStatus::Expired", "EmitStatus::Chargeback" }

\* #[serde(rename_all = "snake_case")] on InvoiceStatus: the wire form.
SerializeStatus(s) ==
    CASE s = "InvoiceStatus::Created"    -> "created"
      [] s = "InvoiceStatus::Paid"       -> "paid"
      [] s = "InvoiceStatus::Failed"     -> "failed"
      [] s = "InvoiceStatus::Canceled"   -> "canceled"
      [] s = "InvoiceStatus::Expired"    -> "expired"
      [] s = "InvoiceStatus::Chargeback" -> "chargeback"

default_currency == "BRL"

\* The bodies of the POST /invoices requests of a run (CreateInvoice after
\* deserialization, defaults filled in).  They differ in every field.
Payloads ==
    { [amount |-> 1000, currency |-> default_currency, webhook_url |-> "http://x/hook",
       emit_after_ms |-> 0, emit_status |-> "EmitStatus::Paid", metadata |-> "null"],
      [amount |-> 2000, currency |-> "USD", webhook_url |-> "http://y/hook",
       emit_after_ms |-> 1, emit_status |-> "EmitStatus::Failed", metadata |-> "{order:7}"] }

\* Values of the Idempotency-Key header: absent or present.
IdempotencyKeys == { None, Some("abc") }

\* The signing secret at startup: ACQ_WEBHOOK_SECRET unset, so the default.
Secrets == { "dev_secret" }

\* Identifiers a GET asks for: the first one create generates, and one that
\* it never generates.
GetIds == { 1, MaxInvoices + 1 }

\* ===== State =====

VARIABLES
    invoices,        \* AppState.invoices: Uuid -> Invoice
    idempotency,     \* AppState.idempotency: key -> Uuid
    webhook_secret,  \* AppState.webhook_secret
    now,             \* Utc::now(), in milliseconds
    generated,       \* identifiers Uuid::new_v4 has returned so far
    handlers,        \* the create_invoice calls: position and locals
    tasks,           \* the dispatcher tasks spawned by create_invoice
    outbox,          \* per task, the POSTs handed to the HTTP client
    get_response     \* the response of the latest get_invoice call

vars == << invoices, idempotency, webhook_secret, now, generated, handlers,
           tasks, outbox, get_response >>

Handlers == 1 .. MaxRequests

IdleHandler ==
    [pc |-> "idle", key |-> None, payload |-> None, existing_id |-> None,
     id |-> None, created_at |-> None, response |-> None]

Init ==
    /\ invoices = << >>
    /\ idempotency = << >>
    /\ webhook_secret \in Secrets
    /\ now = 0
    /\ generated = 0
    /\ handlers = [h \in Handlers |-> IdleHandler]
    /\ tasks = << >>
    /\ outbox = << >>
    /\ get_response = None

\* ===== Helpers =====

\* HMAC-SHA256 as a keyed digest determined by exactly the key and the
\* message, hex-encoded.
hmac_hex(secret, body) ==
    [hex |-> "HmacSha256", key |-> secret, message |-> body]

map_emit_status(s) ==
    CASE s = "EmitStatus::Paid"       -> "InvoiceStatus::Paid"
      [] s = "EmitStatus::Failed"     -> "InvoiceStatus::Failed"
      [] s = "EmitStatus::Canceled"   -> "InvoiceStatus::Canceled"
      [] s = "EmitStatus::Expired"    -> "InvoiceStatus::Expired"
      [] s = "EmitStatus::Chargeback" -> "InvoiceStatus::Chargeback"

checkout_url(id) == << "https://checkout.local/invoice/", id >>

\* DashMap::get and DashMap::insert.
MapGet(m, k) == IF k \in DOMAIN m THEN Some(m[k]) ELSE None
MapInsert(m, k, v) == [x \in DOMAIN m \cup {k} |-> IF x = k THEN v ELSE m[x]]

\* serde_json::to_string of a WebhookPayload: the fields in declaration
\* order, the status in its wire form.
to_string(body) ==
    << << "event", body.event >>, << "id", body.id >>,
       << "status", SerializeStatus(body.status) >>, << "amount", body.amount >>,
       << "currency", body.currency >>, << "emitted_at", body.emitted_at >>,
       << "metadata", body.metadata >> >>

\* ===== Routes: create_invoice =====

\* The requests served so far that missed the index.
Creators == { h \in Handlers : handlers[h].pc # "idle" /\ ~IsSome(handlers[h].existing_id) }

\* The request arrives and the handler looks its key up in the index.
\* Requests are numbered in order of arrival; once MaxInvoices of them have
\* missed the index, only requests that hit it arrive.
CreateLookup(h, key, payload) ==
    /\ handlers[h].pc = "idle"
    /\ h > 1 => handlers[h - 1].pc # "idle"
    /\ LET existing_id == IF IsSome(key) THEN MapGet(idempotency, Unwrap(key)) ELSE None
       IN /\ ~IsSome(existing_id) => Cardinality(Creators) < MaxInvoices
          /\ handlers' = [handlers EXCEPT ![h] =
                          [@ EXCEPT !.pc = IF IsSome(existing_id) THEN "found" ELSE "insert",
                                    !.key = key,
                                    !.payload = Some(payload),
                                    !.existing_id = existing_id]]
    /\ UNCHANGED << invoices, idempotency, webhook_secret, now, generated, tasks,
                    outbox, get_response >>

\* CreateReadExisting updating the stored invoice with the new request's
\* amount before it answers.
CreateReadExisting_Upserts(h) ==
    /\ handlers[h].pc = "found"
    /\ LET id == Unwrap(handlers[h].existing_id)
           inv == [invoices[id] EXCEPT !.amount = Unwrap(handlers[h].payload).amount]
       IN /\ invoices' = MapInsert(invoices, id, inv)
          /\ handlers' = [handlers EXCEPT ![h] =
                [@ EXCEPT !.pc = "done",
                          !.response = Some(
                              [code |-> 200,
                               id |-> inv.id,
                               status |-> inv.status,
                               amount |-> inv.amount,
                               currency |-> inv.currency,
                               created_at |-> inv.created_at,
                               webhook_url |-> inv.webhook_url,
                               checkout_url |-> checkout_url(inv.id),
                               metadata |-> inv.metadata])]]
    /\ UNCHANGED << idempotency, webhook_secret, now, generated, tasks, outbox,
                    get_response >>

\* The key was in the index: read the invoice it names and answer 200 with
\* the record as it is now; fall through to creation if it is missing.
CreateReadExisting(h) ==
    /\ handlers[h].pc = "found"
    /\ LET inv == MapGet(invoices, Unwrap(handlers[h].existing_id))
       IN handlers' = [handlers EXCEPT ![h] =
            IF IsSome(inv)
            THEN [@ EXCEPT !.pc = "done",
                           !.response = Some(
                               [code |-> 200,
                                id |-> Unwrap(inv).id,
                                status |-> Unwrap(inv).status,
                                amount |-> Unwrap(inv).amount,
                                currency |-> Unwrap(inv).currency,
                                created_at |-> Unwrap(inv).created_at,
                                webhook_url |-> Unwrap(inv).webhook_url,
                                checkout_url |-> checkout_url(Unwrap(inv).id),
                                metadata |-> Unwrap(inv).metadata])]
            ELSE [@ EXCEPT !.pc = "insert"]]
    /\ UNCHANGED << invoices, idempotency, webhook_secret, now, generated, tasks,
                    outbox, get_response >>

\* CreateInsert with one fixed identifier instead of a generated one.
CreateInsert_FixedId(h) ==
    /\ handlers[h].pc = "insert"
    /\ LET id == 1
           payload == Unwrap(handlers[h].payload)
           invoice == [id |-> id,
                       amount |-> payload.amount,
                       currency |-> payload.currency,
                       status |-> "InvoiceStatus::Created",
                       webhook_url |-> payload.webhook_url,
                       created_at |-> now,
                       metadata |-> payload.metadata]
       IN /\ generated' = generated + 1
          /\ invoices' = MapInsert(invoices, id, invoice)
          /\ handlers' = [handlers EXCEPT ![h] =
                [@ EXCEPT !.pc = IF IsSome(handlers[h].key) THEN "track" ELSE "spawn",
                          !.id = Some(id),
                          !.created_at = Some(now)]]
    /\ UNCHANGED << idempotency, webhook_secret, now, tasks, outbox, get_response >>

\* CreateInsert building the invoice without storing it.
CreateInsert_SkipsStore(h) ==
    /\ handlers[h].pc = "insert"
    /\ LET id == generated + 1
       IN /\ generated' = id
          /\ handlers' = [handlers EXCEPT ![h] =
                [@ EXCEPT !.pc = IF IsSome(handlers[h].key) THEN "track" ELSE "spawn",
                          !.id = Some(id),
                          !.created_at = Some(now)]]
    /\ UNCHANGED << invoices, idempotency, webhook_secret, now, tasks, outbox,
                    get_response >>

\* Generate the identifier, build the Created invoice and store it.
CreateInsert(h) ==
    /\ handlers[h].pc = "insert"
    /\ LET id == generated + 1
           payload == Unwrap(handlers[h].payload)
           invoice == [id |-> id,
                       amount |-> payload.amount,
                       currency |-> payload.currency,
                       status |-> "InvoiceStatus::Created",
                       webhook_url |-> payload.webhook_url,
                       created_at |-> now,
                       metadata |-> payload.metadata]
       IN /\ generated' = id
          /\ invoices' = MapInsert(invoices, id, invoice)
          /\ handlers' = [handlers EXCEPT ![h] =
                [@ EXCEPT !.pc = IF IsSome(handlers[h].key) THEN "track" ELSE "spawn",
                          !.id = Some(id),
                          !.created_at = Some(now)]]
    /\ UNCHANGED << idempotency, webhook_secret, now, tasks, outbox, get_response >>

\* CreateTrack registering an identifier that no invoice was stored under.
CreateTrack_UnstoredId(h) ==
    /\ handlers[h].pc = "track"
    /\ idempotency' = MapInsert(idempotency, Unwrap(handlers[h].key), generated + 1)
    /\ handlers' = [handlers EXCEPT ![h].pc = "spawn"]
    /\ UNCHANGED << invoices, webhook_secret, now, generated, tasks, outbox,
                    get_response >>

\* Track idempotency: register the key for the new invoice.
CreateTrack(h) ==
    /\ handlers[h].pc = "track"
    /\ idempotency' = MapInsert(idempotency, Unwrap(handlers[h].key),
                                Unwrap(handlers[h].id))
    /\ handlers' = [handlers EXCEPT ![h].pc = "spawn"]
    /\ UNCHANGED << invoices, webhook_secret, now, generated, tasks, outbox,
                    get_response >>

\* Schedule webhook: spawn the dispatcher task with its captured values.
CreateSpawn(h) ==
    /\ handlers[h].pc = "spawn"
    /\ LET id == Unwrap(handlers[h].id)
           payload == Unwrap(handlers[h].payload)
       IN /\ tasks' = MapInsert(tasks, id,
                          [pc |-> "spawned",
                           id |-> id,
                           delay |-> payload.emit_after_ms,
                           secret |-> webhook_secret,
                           final_status |-> map_emit_status(payload.emit_status),
                           webhook_url |-> payload.webhook_url,
                           wake_at |-> None,
                           inv |-> None,
                           res |-> None])
          /\ outbox' = MapInsert(outbox, id, << >>)
    /\ handlers' = [handlers EXCEPT ![h].pc = "respond"]
    /\ UNCHANGED << invoices, idempotency, webhook_secret, now, generated,
                    get_response >>

\* CreateRespond awaiting the spawned task before it answers.
CreateRespond_AwaitsTask(h) ==
    /\ handlers[h].pc = "respond"
    /\ tasks[Unwrap(handlers[h].id)].pc \in { "done", "aborted" }
    /\ LET id == Unwrap(handlers[h].id)
           payload == Unwrap(handlers[h].payload)
       IN handlers' = [handlers EXCEPT ![h] =
            [@ EXCEPT !.pc = "done",
                      !.response = Some(
                          [code |-> 201,
                           id |-> id,
                           status |-> "InvoiceStatus::Created",
                           amount |-> payload.amount,
                           currency |-> payload.currency,
                           created_at |-> Unwrap(handlers[h].created_at),
                           webhook_url |-> payload.webhook_url,
                           checkout_url |-> checkout_url(id),
                           metadata |-> payload.metadata])]]
    /\ UNCHANGED << invoices, idempotency, webhook_secret, now, generated, tasks,
                    outbox, get_response >>

\* Answer 201 with the representation of the new invoice.
CreateRespond(h) ==
    /\ handlers[h].pc = "respond"
    /\ LET id == Unwrap(handlers[h].id)
           payload == Unwrap(handlers[h].payload)
       IN handlers' = [handlers EXCEPT ![h] =
            [@ EXCEPT !.pc = "done",
                      !.response = Some(
                          [code |-> 201,
                           id |-> id,
                           status |-> "InvoiceStatus::Created",
                           amount |-> payload.amount,
                           currency |-> payload.currency,
                           created_at |-> Unwrap(handlers[h].created_at),
                           webhook_url |-> payload.webhook_url,
                           checkout_url |-> checkout_url(id),
                           metadata |-> payload.metadata])]]
    /\ UNCHANGED << invoices, idempotency, webhook_secret, now, generated, tasks,
                    outbox, get_response >>

\* ===== The dispatcher task spawned by create_invoice =====

Tasks == DOMAIN tasks

\* The task starts and registers its timer: sleep(delay).
DispSleep(t) ==
    /\ tasks[t].pc = "spawned"
    /\ tasks' = [tasks EXCEPT ![t] =
                    [@ EXCEPT !.pc = "sleeping", !.wake_at = Some(now + tasks[t].delay)]]
    /\ UNCHANGED << invoices, idempotency, webhook_secret, now, generated, handlers,
                    outbox, get_response >>

\* DispRead with the match arms exchanged: it ends when the invoice is found.
DispRead_EndsWhenFound(t) ==
    /\ tasks[t].pc = "sleeping"
    /\ now >= Unwrap(tasks[t].wake_at)
    /\ LET inv == MapGet(invoices, tasks[t].id)
       IN tasks' = [tasks EXCEPT ![t] =
                       IF IsSome(inv)
                       THEN [@ EXCEPT !.pc = "aborted"]
                       ELSE [@ EXCEPT !.pc = "write", !.inv = inv]]
    /\ UNCHANGED << invoices, idempotency, webhook_secret, now, generated, handlers,
                    outbox, get_response >>

\* DispRead not waiting for its timer.
DispRead_NoWait(t) ==
    /\ tasks[t].pc = "sleeping"
    /\ LET inv == MapGet(invoices, tasks[t].id)
       IN tasks' = [tasks EXCEPT ![t] =
                       IF IsSome(inv)
                       THEN [@ EXCEPT !.pc = "write", !.inv = inv]
                       ELSE [@ EXCEPT !.pc = "aborted"]]
    /\ UNCHANGED << invoices, idempotency, webhook_secret, now, generated, handlers,
                    outbox, get_response >>

\* The delay has elapsed: re-read the invoice, or log and end if it is gone.
DispRead(t) ==
    /\ tasks[t].pc = "sleeping"
    /\ now >= Unwrap(tasks[t].wake_at)
    /\ LET inv == MapGet(invoices, tasks[t].id)
       IN tasks' = [tasks EXCEPT ![t] =
                       IF IsSome(inv)
                       THEN [@ EXCEPT !.pc = "write", !.inv = inv]
                       ELSE [@ EXCEPT !.pc = "aborted"]]
    /\ UNCHANGED << invoices, idempotency, webhook_secret, now, generated, handlers,
                    outbox, get_response >>

\* DispWrite with the terminal status hard-coded instead of taken from the
\* request.
DispWrite_HardcodedPaid(t) ==
    /\ tasks[t].pc = "write"
    /\ LET inv == [Unwrap(tasks[t].inv) EXCEPT !.status = "InvoiceStatus::Paid"]
       IN /\ invoices' = MapInsert(invoices, tasks[t].id, inv)
          /\ tasks' = [tasks EXCEPT ![t] = [@ EXCEPT !.pc = "send", !.inv = Some(inv)]]
    /\ UNCHANGED << idempotency, webhook_secret, now, generated, handlers, outbox,
                    get_response >>

\* DispWrite changing the task's copy only, without the write-back.
DispWrite_NoWriteBack(t) ==
    /\ tasks[t].pc = "write"
    /\ LET inv == [Unwrap(tasks[t].inv) EXCEPT !.status = tasks[t].final_status]
       IN tasks' = [tasks EXCEPT ![t] = [@ EXCEPT !.pc = "send", !.inv = Some(inv)]]
    /\ UNCHANGED << invoices, idempotency, webhook_secret, now, generated, handlers,
                    outbox, get_response >>

\* DispWrite building a new record around the terminal status, stamped with
\* the time of the write.
DispWrite_Restamps(t) ==
    /\ tasks[t].pc = "write"
    /\ LET inv == [Unwrap(tasks[t].inv) EXCEPT !.status = tasks[t].final_status,
                                              !.created_at = now]
       IN /\ invoices' = MapInsert(invoices, tasks[t].id, inv)
          /\ tasks' = [tasks EXCEPT ![t] = [@ EXCEPT !.pc = "send", !.inv = Some(inv)]]
    /\ UNCHANGED << idempotency, webhook_secret, now, generated, handlers, outbox,
                    get_response >>

\* Set the terminal status on the copy and write the copy back.
DispWrite(t) ==
    /\ tasks[t].pc = "write"
    /\ LET inv == [Unwrap(tasks[t].inv) EXCEPT !.status = tasks[t].final_status]
       IN /\ invoices' = MapInsert(invoices, tasks[t].id, inv)
          /\ tasks' = [tasks EXCEPT ![t] = [@ EXCEPT !.pc = "send", !.inv = Some(inv)]]
    /\ UNCHANGED << idempotency, webhook_secret, now, generated, handlers, outbox,
                    get_response >>

\* WebhookPayload echoing no metadata.
WebhookPayload_DropsMetadata(inv, emitted_at) ==
    [event |-> "invoice.updated",
     id |-> inv.id,
     status |-> inv.status,
     amount |-> inv.amount,
     currency |-> inv.currency,
     emitted_at |-> emitted_at,
     metadata |-> "null"]

\* The WebhookPayload built from the task's copy of the invoice.
WebhookPayload(inv, emitted_at) ==
    [event |-> "invoice.updated",
     id |-> inv.id,
     status |-> inv.status,
     amount |-> inv.amount,
     currency |-> inv.currency,
     emitted_at |-> emitted_at,
     metadata |-> inv.metadata]

\* WebhookRequest serializing the payload again, with a later timestamp,
\* after it has signed the first serialization.
WebhookRequest_ReserializesAfterSigning(webhook_url, secret, body) ==
    LET json_body == to_string(body)
        sig == hmac_hex(secret, json_body)
    IN [url |-> webhook_url,
        content_type |-> "application/json",
        x_event |-> "invoice.updated",
        x_signature |-> sig,
        body |-> to_string([body EXCEPT !.emitted_at = @ + 1])]

\* The POST the task hands to the client: the serialized payload as body,
\* its signature under the secret in X-Signature.
WebhookRequest(webhook_url, secret, body) ==
    LET json_body == to_string(body)
        sig == hmac_hex(secret, json_body)
    IN [url |-> webhook_url,
        content_type |-> "application/json",
        x_event |-> "invoice.updated",
        x_signature |-> sig,
        body |-> json_body]

\* Build, serialize, sign and send.
DispSend(t) ==
    /\ tasks[t].pc = "send"
    /\ LET body == WebhookPayload(Unwrap(tasks[t].inv), now)
       IN outbox' = [outbox EXCEPT ![t] =
                        Append(@, WebhookRequest(tasks[t].webhook_url, tasks[t].secret, body))]
    /\ tasks' = [tasks EXCEPT ![t].pc = "awaiting"]
    /\ UNCHANGED << invoices, idempotency, webhook_secret, now, generated, handlers,
                    get_response >>

\* Status codes the webhook destination answers with.
ResponseCodes == { 200, 500 }

\* send() returned Ok(r): any response, success or not, is logged as delivered.
DispDelivered(t, code) ==
    /\ tasks[t].pc = "awaiting"
    /\ tasks' = [tasks EXCEPT ![t] = [@ EXCEPT !.pc = "done", !.res = Some([ok |-> code])]]
    /\ UNCHANGED << invoices, idempotency, webhook_secret, now, generated, handlers,
                    outbox, get_response >>

\* DispDeliveryFailed going back to send the request again.
DispDeliveryFailed_Retry(t) ==
    /\ tasks[t].pc = "awaiting"
    /\ tasks' = [tasks EXCEPT ![t] =
                    [@ EXCEPT !.pc = "send", !.res = Some([err |-> "transport"])]]
    /\ UNCHANGED << invoices, idempotency, webhook_secret, now, generated, handlers,
                    outbox, get_response >>

\* DispDeliveryFailed putting the invoice back to Created.
DispDeliveryFailed_Rollback(t) ==
    /\ tasks[t].pc = "awaiting"
    /\ tasks' = [tasks EXCEPT ![t] =
                    [@ EXCEPT !.pc = "done", !.res = Some([err |-> "transport"])]]
    /\ invoices' = MapInsert(invoices, tasks[t].id,
                             [Unwrap(tasks[t].inv) EXCEPT !.status = "InvoiceStatus::Created"])
    /\ UNCHANGED << idempotency, webhook_secret, now, generated, handlers, outbox,
                    get_response >>

\* send() returned Err(e): a transport error, logged.
DispDeliveryFailed(t) ==
    /\ tasks[t].pc = "awaiting"
    /\ tasks' = [tasks EXCEPT ![t] =
                    [@ EXCEPT !.pc = "done", !.res = Some([err |-> "transport"])]]
    /\ UNCHANGED << invoices, idempotency, webhook_secret, now, generated, handlers,
                    outbox, get_response >>

\* ===== Routes: get_invoice =====

\* get_invoice answering an unknown identifier without naming it.
GetInvoice_MessageOmitsId(id) ==
    /\ LET inv == MapGet(invoices, id)
       IN get_response' = Some(
            IF IsSome(inv)
            THEN [code |-> 200, id |-> id, body |-> Unwrap(inv)]
            ELSE [code |-> 404, id |-> id,
                  body |-> [error |-> "invoice_not_found",
                            message |-> << "Invoice not found" >>]])
    /\ UNCHANGED << invoices, idempotency, webhook_secret, now, generated, handlers,
                    tasks, outbox >>

GetInvoice(id) ==
    /\ LET inv == MapGet(invoices, id)
       IN get_response' = Some(
            IF IsSome(inv)
            THEN [code |-> 200, id |-> id, body |-> Unwrap(inv)]
            ELSE [code |-> 404, id |-> id,
                  body |-> [error |-> "invoice_not_found",
                            message |-> << "Invoice ", id, " not found" >>]])
    /\ UNCHANGED << invoices, idempotency, webhook_secret, now, generated, handlers,
                    tasks, outbox >>

\* ===== Time =====

\* A millisecond passes.  The clock runs to MaxTime, and beyond it for as
\* long as a registered timer is still to fire.
Tick ==
    /\ \/ now < MaxTime
       \/ \E t \in Tasks : tasks[t].pc = "sleeping" /\ Unwrap(tasks[t].wake_at) > now
    /\ now' = now + 1
    /\ UNCHANGED << invoices, idempotency, webhook_secret, generated, handlers, tasks,
                    outbox, get_response >>

\* ===== Specification =====

Next ==
    \/ \E h \in Handlers, key \in IdempotencyKeys, payload \in Payloads :
          CreateLookup(h, key, payload)
    \/ \E h \in Handlers : CreateReadExisting(h)
    \/ \E h \in Handlers : CreateInsert(h)
    \/ \E h \in Handlers : CreateTrack(h)
    \/ \E h \in Handlers : CreateSpawn(h)
    \/ \E h \in Handlers : CreateRespond(h)
    \/ \E t \in Tasks : DispSleep(t)
    \/ \E t \in Tasks : DispRead(t)
    \/ \E t \in Tasks : DispWrite(t)
    \/ \E t \in Tasks : DispSend(t)
    \/ \E t \in Tasks, code \in ResponseCodes : DispDelivered(t, code)
    \/ \E t \in Tasks : DispDeliveryFailed(t)
    \/ \E id \in GetIds : GetInvoice(id)
    \/ Tick

Spec == Init /\ [][Next]_vars

\* ===== Properties =====

Responded(h) == handlers[h].pc = "done"
Response(h) == Unwrap(handlers[h].response)

\* The handlers that stored an invoice for a request carrying key k.
CreatorsOf(k) == { h \in Handlers : handlers[h].key = k /\ IsSome(handlers[h].id) }

\* The request that created invoice id.
CreatorOf(id) == CHOOSE h \in Handlers : handlers[h].id = Some(id)

\* The dispatcher of invoice id has written the terminal status back.
WrittenBack(id) == id \in Tasks /\ tasks[id].pc \in { "send", "awaiting", "done" }

\* Delivery attempts made for invoice id.
Attempts(id) == IF id \in DOMAIN outbox THEN Len(outbox[id]) ELSE 0

\* C1: requests carrying the same Idempotency-Key, overlapping or not, store
\* at most one invoice for the key, all return the same identifier, and at
\* most one dispatcher task is spawned for the key.
C1_OneInvoicePerKey ==
    \A k \in IdempotencyKeys \ { None } :
        /\ Cardinality(CreatorsOf(k)) <= 1
        /\ \A h1, h2 \in Handlers :
              ( /\ handlers[h1].key = k /\ handlers[h2].key = k
                /\ Responded(h1) /\ Responded(h2) )
              => Response(h1).id = Response(h2).id
        /\ Cardinality({ t \in Tasks : CreatorOf(t) \in CreatorsOf(k) }) <= 1

\* C2: every successful response of create, 201 or 200, carries status
\* Created, never a terminal status.
C2_ResponseStatusCreated ==
    \A h \in Handlers :
        Responded(h) => Response(h).status = "InvoiceStatus::Created"

\* C3: the stored status of an invoice is Created until its dispatcher's
\* write-back, is from then on the terminal status mapped from the creating
\* request's emit_status, and changes only in that one step.
C3_StatusByPhase ==
    \A id \in DOMAIN invoices :
        invoices[id].status =
            IF WrittenBack(id)
            THEN map_emit_status(Unwrap(handlers[CreatorOf(id)].payload).emit_status)
            ELSE "InvoiceStatus::Created"

C3_StatusStep ==
    \A id \in DOMAIN invoices :
        /\ id \in DOMAIN invoices'
        /\ invoices'[id].status # invoices[id].status
             => /\ invoices[id].status = "InvoiceStatus::Created"
                /\ invoices'[id].status # "InvoiceStatus::Created"
                /\ invoices'[id].status =
                     map_emit_status(Unwrap(handlers[CreatorOf(id)].payload).emit_status)

\* C3: the status of every stored invoice is fixed by its dispatcher phase
\* in every state, and every step changes it at most from Created to the
\* requested terminal status.
C3_StatusChangesOnce == [](C3_StatusByPhase) /\ [][C3_StatusStep]_vars

C3_Witness ==
    \E id \in Tasks :
        /\ tasks[id].pc = "done"
        /\ invoices[id].status = "InvoiceStatus::Failed"

\* C4: a request arriving with a key that an earlier, completed request
\* registered finds the key, is answered 200 with the id, amount, currency,
\* webhook_url, created_at and metadata of the invoice a request with that
\* key stored, whatever its own payload, and no more than one webhook is
\* sent for the key.
C4_Arrives(h) == handlers[h].pc = "idle" /\ handlers'[h].pc # "idle"

C4_Step ==
    \A h \in Handlers :
        /\ ( /\ C4_Arrives(h)
             /\ IsSome(handlers'[h].key)
             /\ \E g \in CreatorsOf(handlers'[h].key) : Responded(g) )
           => LET k == handlers'[h].key
              IN /\ handlers'[h].pc = "found"
                 /\ \E g \in CreatorsOf(k) : handlers'[h].existing_id = handlers[g].id
                 /\ Cardinality({ g \in CreatorsOf(k) :
                                     Attempts(Unwrap(handlers[g].id)) > 0 }) <= 1
        /\ (handlers[h].pc = "found" /\ handlers'[h].pc = "done")
           => LET stored == invoices[Unwrap(handlers[h].existing_id)]
                  r == Unwrap(handlers'[h].response)
              IN /\ r.code = 200
                 /\ r.id = stored.id
                 /\ r.amount = stored.amount
                 /\ r.currency = stored.currency
                 /\ r.webhook_url = stored.webhook_url
                 /\ r.created_at = stored.created_at
                 /\ r.metadata = stored.metadata

\* C4: every step satisfies the replay property above.
C4_ReplayOfCompleted == [][C4_Step]_vars

\* C5: once the index maps a key to an identifier, the mapping is never
\* overwritten.
C5_Step ==
    \A k \in DOMAIN idempotency :
        k \in DOMAIN idempotency' /\ idempotency'[k] = idempotency[k]

\* C5: no step changes or removes an entry of the idempotency index.
C5_IndexNeverOverwritten == [][C5_Step]_vars

\* C6: get on an identifier absent from the store answers 404 with error
\* "invoice_not_found" and a message embedding the identifier; get on a
\* present identifier answers 200 with the current record, whose status is
\* Created before the dispatcher's write-back and terminal after it; get
\* changes neither the store nor the index.
C6_Step ==
    get_response' # get_response =>
        LET r == Unwrap(get_response')
        IN /\ UNCHANGED << invoices, idempotency >>
           /\ r.id \notin DOMAIN invoices =>
                /\ r.code = 404
                /\ r.body.error = "invoice_not_found"
                /\ r.body.message = << "Invoice ", r.id, " not found" >>
           /\ r.id \in DOMAIN invoices =>
                /\ r.code = 200
                /\ r.body = invoices[r.id]
                /\ r.body.status =
                     IF WrittenBack(r.id) THEN tasks[r.id].final_status
                     ELSE "InvoiceStatus::Created"

\* C6: every step that produces a get response produces the one described
\* above and leaves the store and the index unchanged.
C6_GetResponse == [][C6_Step]_vars

C6_Witness ==
    /\ IsSome(get_response)
    /\ Unwrap(get_response).code = 404
    /\ Unwrap(get_response).id \notin DOMAIN invoices
    /\ invoices # << >>

\* C7: in every delivery attempt the X-Signature header is the signature,
\* under the process secret, of exactly the body sent in that request.
C7_SignatureOverBody ==
    \A t \in DOMAIN outbox : \A i \in 1 .. Len(outbox[t]) :
        outbox[t][i].x_signature = hmac_hex(webhook_secret, outbox[t][i].body)

C7_Witness ==
    \E t \in DOMAIN outbox : Len(outbox[t]) > 0

\* C8: whenever a delivery attempt for an invoice has started or finished,
\* the store already holds the invoice with its terminal status, and a get
\* answered from then on does not observe Created.
C8_Delivering(t) == Attempts(t) > 0 \/ tasks[t].pc \in { "awaiting", "done" }

C8_Stored ==
    \A t \in Tasks :
        C8_Delivering(t) =>
            /\ t \in DOMAIN invoices
            /\ invoices[t].status = tasks[t].final_status
            /\ invoices[t].status # "InvoiceStatus::Created"

C8_GetStep ==
    get_response' # get_response =>
        LET r == Unwrap(get_response')
        IN (r.id \in Tasks /\ C8_Delivering(r.id)) =>
              (r.code = 200 /\ r.body.status # "InvoiceStatus::Created")

\* C8: the write-back precedes the delivery attempt in every state, and no
\* get answered during or after the attempt observes Created.
C8_WriteBeforeDelivery == [](C8_Stored) /\ [][C8_GetStep]_vars

C8_Witness ==
    \E t \in Tasks :
        /\ tasks[t].pc = "awaiting"
        /\ IsSome(get_response)
        /\ Unwrap(get_response).id = t
        /\ Unwrap(get_response).code = 200
        /\ Unwrap(get_response).body.status = tasks[t].final_status

\* A delivery that failed: a transport error, or a non-success response.
DeliveryFailed(res) ==
    IsSome(res) /\ ("err" \in DOMAIN Unwrap(res) \/ Unwrap(res).ok >= 400)

\* C9: no invoice has more than one delivery attempt, also after a
\* transport error or a non-success response.
C9_AtMostOneAttempt ==
    \A t \in DOMAIN outbox : Len(outbox[t]) <= 1

C9_Witness ==
    \E t \in Tasks :
        /\ tasks[t].pc = "done"
        /\ DeliveryFailed(tasks[t].res)
        /\ Len(outbox[t]) = 1

\* C10: the step in which a delivery fails changes neither the store nor
\* the index nor any handler; the invoice keeps the terminal status written
\* before the attempt, and the handlers in progress and get stay enabled
\* afterwards.
C10_Step ==
    \A t \in Tasks :
        (tasks[t].pc = "awaiting" /\ DeliveryFailed(tasks'[t].res)) =>
            /\ UNCHANGED << invoices, idempotency, handlers, outbox >>
            /\ invoices'[t].status = tasks[t].final_status
            /\ \A u \in Tasks \ { t } : tasks'[u] = tasks[u]

C10_StillServing ==
    (\E t \in Tasks : DeliveryFailed(tasks[t].res)) =>
        /\ \A id \in GetIds : ENABLED GetInvoice(id)
        /\ \A h \in Handlers :
              /\ handlers[h].pc = "found" => ENABLED CreateReadExisting(h)
              /\ handlers[h].pc = "insert" => ENABLED CreateInsert(h)
              /\ handlers[h].pc = "track" => ENABLED CreateTrack(h)
              /\ handlers[h].pc = "spawn" => ENABLED CreateSpawn(h)
              /\ handlers[h].pc = "respond" => ENABLED CreateRespond(h)

\* C10: a failing delivery step changes no shared state, and the service
\* keeps serving after it.
C10_FailedDeliveryFrame == [](C10_StillServing) /\ [][C10_Step]_vars

C10_Witness ==
    \E t \in Tasks :
        /\ DeliveryFailed(tasks[t].res)
        /\ invoices[t].status = tasks[t].final_status
        /\ \E h \in Handlers : handlers[h].pc = "insert"

\* The body of the request that created invoice id.
CreatingPayload(id) == Unwrap(handlers[CreatorOf(id)].payload)

\* C11: the step that changes an invoice's status is taken no earlier than
\* the creating request's emit_after_ms after the invoice's created_at, and
\* the write-back is not enabled before that instant.
C11_Step ==
    \A id \in DOMAIN invoices :
        invoices'[id].status # invoices[id].status
            => now >= invoices[id].created_at + CreatingPayload(id).emit_after_ms

C11_NotEnabledEarly ==
    \A t \in Tasks :
        now < invoices[t].created_at + CreatingPayload(t).emit_after_ms
            => ~ENABLED DispWrite(t)

C11_NoEarlyTransition == [](C11_NotEnabledEarly) /\ [][C11_Step]_vars

C11_Witness ==
    \E t \in Tasks :
        /\ CreatingPayload(t).emit_after_ms > 0
        /\ WrittenBack(t)
        /\ invoices[t].status = tasks[t].final_status
        /\ now >= invoices[t].created_at + CreatingPayload(t).emit_after_ms

\* ===== Fair scheduling =====

\* A handler that has started runs to its response.
HandlerStep(h) ==
    \/ CreateReadExisting(h)
    \/ CreateInsert(h)
    \/ CreateTrack(h)
    \/ CreateSpawn(h)
    \/ CreateRespond(h)

\* A spawned task is polled until it ends; the HTTP client's send returns.
TaskStep(t) ==
    \/ DispSleep(t)
    \/ DispRead(t)
    \/ DispWrite(t)
    \/ DispSend(t)
    \/ \E code \in ResponseCodes : DispDelivered(t, code)
    \/ DispDeliveryFailed(t)

\* The runtime runs every started handler and every spawned task, and time
\* passes while a timer is pending.
Fairness ==
    /\ \A h \in Handlers : WF_vars(HandlerStep(h))
    /\ \A t \in 1 .. MaxInvoices : WF_vars(t \in Tasks /\ TaskStep(t))
    /\ WF_vars(Tick)

\* The steps of the create requests, their tasks and the clock.  A GET
\* reads the store and changes nothing a handler or a task reads, so the
\* progress of handlers and tasks is checked without GET requests.
NextServing ==
    \/ \E h \in Handlers, key \in IdempotencyKeys, payload \in Payloads :
          CreateLookup(h, key, payload)
    \/ \E h \in Handlers : HandlerStep(h)
    \/ \E t \in Tasks : TaskStep(t)
    \/ Tick

FairSpec == Init /\ [][NextServing]_vars /\ Fairness

\* C12: under fair scheduling every stored invoice eventually has its
\* requested terminal status and its one delivery attempt, and its task has
\* ended, whether the delivery succeeded or failed.
C12_Settled(id) ==
    /\ id \in DOMAIN invoices
    /\ id \in Tasks
    /\ tasks[id].pc = "done"
    /\ invoices[id].status = map_emit_status(CreatingPayload(id).emit_status)
    /\ Attempts(id) = 1

C12_EveryInvoiceSettles ==
    \A id \in 1 .. MaxInvoices : (id \in DOMAIN invoices) ~> C12_Settled(id)

C12_Witness ==
    \E id \in DOMAIN invoices :
        /\ C12_Settled(id)
        /\ DeliveryFailed(tasks[id].res)

\* The fields of an invoice other than its status.
Immutables(inv) ==
    << inv.id, inv.amount, inv.currency, inv.webhook_url, inv.created_at, inv.metadata >>

\* C13: no step changes the id, amount, currency, webhook_url, created_at or
\* metadata of a stored invoice; they stay those of the creating request,
\* also across the dispatcher's write-back of the whole record.
C13_Step ==
    \A id \in DOMAIN invoices :
        /\ id \in DOMAIN invoices'
        /\ Immutables(invoices'[id]) = Immutables(invoices[id])

C13_AsCreated ==
    \A id \in DOMAIN invoices :
        Immutables(invoices[id]) =
            << id, CreatingPayload(id).amount, CreatingPayload(id).currency,
               CreatingPayload(id).webhook_url, Unwrap(handlers[CreatorOf(id)].created_at),
               CreatingPayload(id).metadata >>

C13_FieldsImmutable == [](C13_AsCreated) /\ [][C13_Step]_vars

C13_Witness ==
    \E id \in Tasks :
        /\ WrittenBack(id)
        /\ invoices[id].status # "InvoiceStatus::Created"
        /\ now > invoices[id].created_at
        /\ \E h \in Handlers :
              /\ Responded(h)
              /\ handlers[h].existing_id = Some(id)
              /\ Unwrap(handlers[h].payload).amount # invoices[id].amount

\* The task of invoice t has begun its delay, or is past it.
DelayBegun(t) == tasks[t].pc # "spawned"

\* C14, as claimed: whenever a dispatcher task has begun or finished its
\* delay, the handler that spawned it has already returned its response.
C14_ResponseBeforeDelay ==
    \A t \in Tasks : DelayBegun(t) => Responded(CreatorOf(t))

\* C14, amended: the handler does not await its dispatcher.  A task exists
\* only once its handler has stored the invoice and spawned it, and from the
\* spawn on the handler's response is enabled whatever the task has done;
\* the task may begin, and finish, its delay before the response.
C14_HandlerDoesNotAwait ==
    /\ \A t \in Tasks :
          /\ t \in DOMAIN invoices
          /\ handlers[CreatorOf(t)].pc \in { "respond", "done" }
    /\ \A h \in Handlers :
          handlers[h].pc = "respond" => ENABLED CreateRespond(h)

C14_Witness ==
    \E t \in Tasks :
        /\ handlers[CreatorOf(t)].pc = "respond"
        /\ tasks[t].pc = "done"

\* The value of field name in a serialized body.
JsonField(json, name) ==
    LET i == CHOOSE j \in 1 .. Len(json) : json[j][1] = name
    IN json[i][2]

\* C15: every webhook sent for an invoice carries event "invoice.updated",
\* the invoice's id, the requested terminal status, which is the status the
\* store holds, and the amount, currency and metadata of the creating
\* request.
C15_PayloadOfInvoice ==
    \A t \in DOMAIN outbox : \A i \in 1 .. Len(outbox[t]) :
        LET json == outbox[t][i].body
        IN /\ JsonField(json, "event") = "invoice.updated"
           /\ JsonField(json, "id") = t
           /\ JsonField(json, "status") =
                SerializeStatus(map_emit_status(CreatingPayload(t).emit_status))
           /\ JsonField(json, "status") = SerializeStatus(invoices[t].status)
           /\ JsonField(json, "status") # "created"
           /\ JsonField(json, "amount") = CreatingPayload(t).amount
           /\ JsonField(json, "currency") = CreatingPayload(t).currency
           /\ JsonField(json, "metadata") = CreatingPayload(t).metadata

C15_Witness ==
    \E t \in DOMAIN outbox :
        /\ Len(outbox[t]) = 1
        /\ JsonField(outbox[t][1].body, "status") = "failed"
        /\ JsonField(outbox[t][1].body, "metadata") = "{order:7}"

\* The identifiers the create responses returned so far.
ReturnedIds == { Response(h).id : h \in { g \in Handlers : Responded(g) } }

\* C16: no step removes an invoice from the store; every identifier a
\* create response returned is in the store and a get for it answers 200;
\* no dispatcher ends in the branch for a missing invoice.
C16_Step ==
    /\ DOMAIN invoices \subseteq DOMAIN invoices'
    /\ get_response' # get_response =>
          (Unwrap(get_response').id \in ReturnedIds => Unwrap(get_response').code = 200)

C16_Present ==
    /\ ReturnedIds \subseteq DOMAIN invoices
    /\ \A t \in Tasks :
          /\ tasks[t].pc # "aborted"
          /\ tasks[t].pc \notin { "spawned", "sleeping" } => IsSome(tasks[t].inv)

C16_NeverRemoved == [](C16_Present) /\ [][C16_Step]_vars

C16_Witness ==
    /\ IsSome(get_response)
    /\ Unwrap(get_response).code = 200
    /\ Unwrap(get_response).id \in ReturnedIds
    /\ Unwrap(get_response).id \in Tasks
    /\ tasks[Unwrap(get_response).id].pc = "done"

\* The handlers that have stored their invoice and not yet spawned its task.
BetweenInsertAndSpawn == { h \in Handlers : handlers[h].pc \in { "track", "spawn" } }

\* A step of a request that hit the index changes nothing shared.
C17_ReplayStep ==
    \A h \in Handlers :
        (handlers'[h] # handlers[h] /\ IsSome(handlers'[h].existing_id))
            => UNCHANGED << invoices, idempotency, tasks, outbox, generated >>

\* A request answered 200 stored nothing; a request answered 201 stored one
\* invoice of its own and spawned the one task of that invoice.
C17_PerResponse ==
    \A h \in Handlers :
        Responded(h) =>
            /\ Response(h).code = 200 => ~IsSome(handlers[h].id)
            /\ Response(h).code = 201 =>
                  /\ handlers[h].id = Some(Response(h).id)
                  /\ Response(h).id \in DOMAIN invoices
                  /\ Response(h).id \in Tasks
                  /\ \A g \in Handlers \ { h } : handlers[g].id # handlers[h].id

\* As many tasks have been spawned as invoices are in the store.
C17_CountsEqual ==
    C17_PerResponse /\ Cardinality(Tasks) = Cardinality(DOMAIN invoices)

\* C17, as claimed: a request answered 200 has no side effects, a request
\* answered 201 stores one invoice and spawns one dispatcher, and in every
\* reachable state the number of dispatcher tasks spawned equals the number
\* of invoices in the store.
C17_TasksEqualInvoices == [](C17_CountsEqual) /\ [][C17_ReplayStep]_vars

\* The tasks spawned and the handlers about to spawn one are as many as the
\* invoices in the store.
C17_CountsFollow ==
    /\ C17_PerResponse
    /\ Cardinality(Tasks) + Cardinality(BetweenInsertAndSpawn)
          = Cardinality(DOMAIN invoices)

\* C17, amended: as claimed, except that the number of tasks spawned equals
\* the number of invoices in the store less the handlers that have stored
\* their invoice and not yet spawned its task; the two numbers are equal
\* whenever no handler is between its insert and its spawn.
C17_TasksFollowInvoices == [](C17_CountsFollow) /\ [][C17_ReplayStep]_vars

C17_Witness ==
    /\ \E h \in Handlers : Responded(h) /\ Response(h).code = 200
    /\ \E h \in Handlers : Responded(h) /\ Response(h).code = 201
    /\ BetweenInsertAndSpawn = {}
    /\ Cardinality(Tasks) = MaxInvoices

\* The requests that arrived without an Idempotency-Key header.
Keyless == { h \in Handlers : handlers[h].pc # "idle" /\ handlers[h].key = None }

\* A keyless request never takes the idempotent branch and never changes
\* the index; the invoice it stores has an identifier not in the store
\* before, status Created and the request's fields.
C18_Step ==
    \A h \in Handlers :
        (handlers'[h] # handlers[h] /\ handlers'[h].key = None) =>
            /\ idempotency' = idempotency
            /\ handlers'[h].pc # "found"
            /\ IsSome(handlers'[h].id) /\ ~IsSome(handlers[h].id) =>
                  LET id == Unwrap(handlers'[h].id)
                      payload == Unwrap(handlers[h].payload)
                  IN /\ id \notin DOMAIN invoices
                     /\ id \in DOMAIN invoices'
                     /\ invoices'[id] =
                          [id |-> id,
                           amount |-> payload.amount,
                           currency |-> payload.currency,
                           status |-> "InvoiceStatus::Created",
                           webhook_url |-> payload.webhook_url,
                           created_at |-> now,
                           metadata |-> payload.metadata]

\* A keyless request is answered 201 with its own invoice, and no two
\* keyless requests share an invoice.
C18_Answered ==
    \A h \in Keyless :
        /\ Responded(h) =>
              /\ Response(h).code = 201
              /\ handlers[h].id = Some(Response(h).id)
              /\ Response(h).id \in DOMAIN invoices
        /\ \A g \in Keyless \ { h } :
              IsSome(handlers[h].id) => handlers[g].id # handlers[h].id

\* C18: a request without an Idempotency-Key always creates a new invoice
\* with a fresh identifier, status Created and the request's fields, is
\* answered 201 and leaves the index unchanged; two identical keyless
\* requests yield two distinct invoices.
C18_KeylessCreates == [](C18_Answered) /\ [][C18_Step]_vars

C18_Witness ==
    \E g, h \in Keyless :
        /\ g # h
        /\ Responded(g) /\ Responded(h)
        /\ handlers[g].payload = handlers[h].payload
        /\ Response(g).id # Response(h).id
        /\ { Response(g).id, Response(h).id } \subseteq DOMAIN invoices
        /\ idempotency = << >>

\* Every identifier held in the index is in the store.
C19_IndexedAreStored ==
    \A k \in DOMAIN idempotency : idempotency[k] \in DOMAIN invoices

\* A request that found its key reads the invoice and answers 200; it does
\* not go on to create an invoice.
C19_Step ==
    \A h \in Handlers :
        (handlers[h].pc = "found" /\ handlers'[h] # handlers[h]) =>
            /\ handlers'[h].pc = "done"
            /\ IsSome(handlers'[h].response)
            /\ Unwrap(handlers'[h].response).code = 200
            /\ Unwrap(handlers'[h].response).id = Unwrap(handlers[h].existing_id)
            /\ invoices' = invoices

\* C19: every identifier in the idempotency index is present in the invoice
\* store, so a same-key request that finds the key also finds the invoice
\* and never falls through to create a second one.
C19_IndexWithinStore == [](C19_IndexedAreStored) /\ [][C19_Step]_vars

C19_Witness ==
    \E h \in Handlers :
        /\ IsSome(handlers[h].existing_id)
        /\ Responded(h)
        /\ Response(h).code = 200
        /\ idempotency[Unwrap(handlers[h].key)] = Response(h).id
        /\ ~IsSome(handlers[h].id)

\* The first request that arrived with key k.
FirstWithKey(k) ==
    CHOOSE f \in Handlers :
        /\ handlers[f].pc # "idle" /\ handlers[f].key = k
        /\ \A g \in Handlers :
              (handlers[g].pc # "idle" /\ handlers[g].key = k) => f <= g

\* The URLs of the delivery attempts made for invoice t.
DeliveredTo(t) == { outbox[t][i].url : i \in 1 .. Len(outbox[t]) }

\* The dispatcher of an invoice holds the URL, status and delay of the
\* request that created it, the URL is the stored one, and every delivery
\* goes to it.
C20_CreatorsValues ==
    \A t \in Tasks :
        /\ tasks[t].webhook_url = CreatingPayload(t).webhook_url
        /\ tasks[t].webhook_url = invoices[t].webhook_url
        /\ tasks[t].final_status = map_emit_status(CreatingPayload(t).emit_status)
        /\ tasks[t].delay = CreatingPayload(t).emit_after_ms
        /\ IsSome(tasks[t].wake_at) =>
              Unwrap(tasks[t].wake_at) >= invoices[t].created_at + tasks[t].delay
        /\ DeliveredTo(t) \subseteq { CreatingPayload(t).webhook_url }

\* A request that arrived after another request with the same key has no
\* effect on the dispatchers of that key: they keep the first request's
\* URL, terminal status and delay, and deliver to the first request's URL.
C20_LaterIgnored ==
    \A h \in Handlers :
        (handlers[h].pc # "idle" /\ IsSome(handlers[h].key)
            /\ FirstWithKey(handlers[h].key) # h) =>
            LET first == Unwrap(handlers[FirstWithKey(handlers[h].key)].payload)
            IN \A t \in Tasks :
                  handlers[CreatorOf(t)].key = handlers[h].key =>
                      /\ tasks[t].webhook_url = first.webhook_url
                      /\ tasks[t].final_status = map_emit_status(first.emit_status)
                      /\ tasks[t].delay = first.emit_after_ms
                      /\ DeliveredTo(t) \subseteq { first.webhook_url }

\* C20: the webhook for an invoice is sent only to the webhook_url of the
\* request that created it, which is the stored webhook_url; a later
\* same-key request with a different webhook_url, emit_status or
\* emit_after_ms causes no delivery to its own URL and changes neither the
\* terminal status nor the emission time.
C20_WebhookToCreatorOnly == C20_CreatorsValues /\ C20_LaterIgnored

====
